---- MODULE Spec2Model ----
(***************************************************************************)
(* Ultimate Word Search Generator (ultimateWordSearchGenerator.cpp).       *)
(*                                                                         *)
(* main reads the inputs and starts one generatePuzzle task per puzzle;    *)
(* each task owns a WordSearch instance, runs generate() (shuffle, word    *)
(* placement, fill with banned-word rejection) and appends its grid to the *)
(* output file.  Random draws are nondeterministic choices.                *)
(***************************************************************************)
EXTENDS Integers, Sequences, FiniteSets, TLC

VARIABLES
    rows, cols,      \* main: int rows, cols                        (line 288)
    words,           \* main: std::vector<std::string> words        (line 290)
    letters,         \* main: std::vector<char> letters             (line 291)
    bannedWords,     \* main: std::unordered_set<std::string>       (line 292)
    numPuzzles,      \* main: int numPuzzles                        (line 288)
    mpc,             \* position of the main thread
    launched,        \* generatePuzzles: i of the launch loop       (line 266)
    joined,          \* generatePuzzles: index of the future waited for (271)
    tpc,             \* position of each generatePuzzle task
    ws,              \* the WordSearch instance of each task, its random
                     \* generator included                         (88-93)
    calls,           \* the calls of generate() made on each instance
    wi,              \* generate: index of the word of the range-for (line 64)
    attempts,        \* placeWord: attempts                         (line 126)
    fr, fc,          \* fillGrid: r and c                           (149-150)
    placed,          \* history: the placements that returned at line 139
    warned,          \* the words logged at line 143
    openFailed,      \* the tasks that logged at line 251
    pending,         \* lines held by a task's ofstream, not yet written
    file             \* the lines of the output file

vars == << rows, cols, words, letters, bannedWords, numPuzzles, mpc, launched,
           joined, tpc, ws, calls, wi, attempts, fr, fc, placed, warned,
           openFailed, pending, file >>

mainVars == << rows, cols, words, letters, bannedWords, numPuzzles >>

----------------------------------------------------------------------------
(* Bounds of the model *)

\* largest number of rows, and of columns, of an input
MaxDim == 2
\* largest number of words of an input word list
MaxWords == 2
\* largest number of puzzles of a batch
MaxPuzzles == 2
\* lines an ofstream buffer holds before it writes them out (the stream
\* buffers bytes; the model counts whole lines)
BufLines == 2
\* largest number of calls of generate() on one instance
MaxCalls == 2

\* placeWord: const int maxAttempts = 100
maxAttempts == 100

\* the sentinel of an empty cell: ' '
Empty == " "

\* smallest dimension of an input: std::cin >> rows accepts negative numbers
MinDim == 0 - 1

Puzzles == 0 .. (MaxPuzzles - 1)

----------------------------------------------------------------------------
(* The grid and the two scans *)

\* WordSearch::placeWord: directions (6 placement directions)
placeDirections ==
    << <<0, 1>>, <<1, 0>>, <<1, 1>>, <<0, -1>>, <<-1, 0>>, <<-1, -1>> >>

\* a scan along the placement directions only
scanDirectionsNoAntiDiagonal == placeDirections

\* WordSearch::checkForBannedWord: directions (8 scan directions)
scanDirections ==
    << <<0, 1>>, <<1, 0>>, <<1, 1>>, <<0, -1>>, <<-1, 0>>, <<-1, -1>>,
       <<1, -1>>, <<-1, 1>> >>

\* WordSearch::WordSearch: grid.resize(rows, std::vector<char>(cols, ' '))
EmptyGrid(R, C) == [r \in 0 .. (R - 1) |-> [c \in 0 .. (C - 1) |-> Empty]]

\* the span test shared by canPlaceWord and canFormWord: only the last cell
\* of the span is tested
OutOfBounds(R, C, n, row, col, dr, dc) ==
    \/ row + dr * (n - 1) < 0
    \/ row + dr * (n - 1) >= R
    \/ col + dc * (n - 1) < 0
    \/ col + dc * (n - 1) >= C

\* a canPlaceWord that tests the bounds and not the cells
canPlaceWordNoCollision(w, word, row, col, dr, dc) ==
    ~ OutOfBounds(w.rows, w.cols, Len(word), row, col, dr, dc)

\* WordSearch::canPlaceWord
canPlaceWord(w, word, row, col, dr, dc) ==
    IF OutOfBounds(w.rows, w.cols, Len(word), row, col, dr, dc)
    THEN FALSE
    ELSE \A i \in 0 .. (Len(word) - 1) :
            ~ ( /\ w.grid[row + dr * i][col + dc * i] # Empty
                /\ w.grid[row + dr * i][col + dc * i] # word[i + 1] )

\* a write loop that stops after the word's first letter
WriteWordFirstLetter(g, word, row, col, dr, dc) ==
    [r \in DOMAIN g |-> [c \in DOMAIN g[r] |->
        IF r = row /\ c = col THEN word[1] ELSE g[r][c]]]

\* WordSearch::placeWord, lines 134-138: the grid with the word written
WriteWord(g, word, row, col, dr, dc) ==
    [r \in DOMAIN g |-> [c \in DOMAIN g[r] |->
        IF \E i \in 0 .. (Len(word) - 1) : r = row + dr * i /\ c = col + dc * i
        THEN word[(CHOOSE i \in 0 .. (Len(word) - 1) :
                      r = row + dr * i /\ c = col + dc * i) + 1]
        ELSE g[r][c]]]

\* WordSearch::canFormWord
canFormWord(w, word, row, col, dr, dc) ==
    IF OutOfBounds(w.rows, w.cols, Len(word), row, col, dr, dc)
    THEN FALSE
    ELSE \A i \in 0 .. (Len(word) - 1) :
            w.grid[row + dr * i][col + dc * i] = word[i + 1]

\* WordSearch::checkForBannedWord
checkForBannedWord(w, word, r, c) ==
    \E k \in 1 .. Len(scanDirections) :
        canFormWord(w, word, r, c, scanDirections[k][1], scanDirections[k][2])

\* WordSearch::checkForBannedWordAround
checkForBannedWordAround(w, r, c) ==
    \E b \in w.bannedWords : checkForBannedWord(w, b, r, c)

\* WordSearch::containsBannedWords
containsBannedWords(w) ==
    \E r \in 0 .. (w.rows - 1) : \E c \in 0 .. (w.cols - 1) :
        checkForBannedWordAround(w, r, c)

\* WordSearch::printGrid: the text of row r
RowText(w, r) == [i \in 1 .. w.cols |-> w.grid[r][i - 1]]

\* generatePuzzle, lines 247-249: the lines a task sends to its stream
Block(p, w) ==
    << [puzzle |-> p + 1, kind |-> "header", text |-> << >>] >>
    \o [i \in 1 .. w.rows |->
            [puzzle |-> p + 1, kind |-> "row", text |-> RowText(w, i - 1)]]
    \o << [puzzle |-> p + 1, kind |-> "blank", text |-> << >>] >>

----------------------------------------------------------------------------
(* The inputs main reads *)

\* rows and cols as typed: any integers
Dims == (MinDim .. MaxDim) \X (MinDim .. MaxDim)

\* the letters line: empty, one letter, two letters
LetterChoices == { << >>, << "A" >>, << "A", "B" >> }

\* the words a user may enter
WordPool == { << "A", "B" >>, << "B" >> }

\* the banned words a user may enter
BannedPool == { << "B" >>, << "A", "A" >> }

WordLists ==
    UNION { [1 .. n -> WordPool] : n \in 0 .. MaxWords }

\* batches of several concurrent puzzles are explored on the small inputs
SmallInput(d, wl) == Len(wl) = 0 /\ d[1] <= 2 /\ d[2] <= 1

\* a task that has no instance yet
NoInstance ==
    [rows |-> 0, cols |-> 0, words |-> << >>, letters |-> << >>,
     bannedWords |-> {}, grid |-> << >>, rng |-> "none"]

Init ==
    /\ \E d \in Dims, n \in 0 .. MaxPuzzles :
          /\ rows = d[1]
          /\ cols = d[2]
          /\ numPuzzles = n
          /\ words \in WordLists
          /\ n >= 2 => SmallInput(d, words)
    /\ letters \in LetterChoices
    /\ bannedWords \in SUBSET BannedPool
    /\ mpc = "input"
    /\ launched = 0
    /\ joined = 0
    /\ tpc = [p \in Puzzles |-> "idle"]
    /\ ws = [p \in Puzzles |-> NoInstance]
    /\ calls = [p \in Puzzles |-> 0]
    /\ wi = [p \in Puzzles |-> 0]
    /\ attempts = [p \in Puzzles |-> 0]
    /\ fr = [p \in Puzzles |-> 0]
    /\ fc = [p \in Puzzles |-> 0]
    /\ placed = [p \in Puzzles |-> {}]
    /\ warned = [p \in Puzzles |-> << >>]
    /\ openFailed = {}
    /\ pending = [p \in Puzzles |-> << >>]
    /\ file \in { << >>, << [puzzle |-> 0, kind |-> "stale", text |-> << >>] >> }

----------------------------------------------------------------------------
(* WordSearch: construction and generate() *)

\* the task runs while the process does
Running == mpc \notin {"exit0", "exit1", "aborted"}

engineVars == << ws, calls, wi, attempts, fr, fc, placed, warned >>

\* WordSearch::WordSearch (line 241): a negative size makes the vector
\* constructor throw std::length_error inside the task; rng is seeded from
\* std::random_device (line 56).  The generator is followed as "seeded" until
\* its first value is drawn and as "advanced" from then on.
Construct(p) ==
    /\ Running /\ tpc[p] = "construct"
    /\ IF rows < 0 \/ cols < 0
       THEN /\ tpc' = [tpc EXCEPT ![p] = "threw"]
            /\ ws' = ws
       ELSE /\ tpc' = [tpc EXCEPT ![p] = "generate"]
            /\ ws' = [ws EXCEPT ![p] =
                        [rows |-> rows, cols |-> cols, words |-> words,
                         letters |-> letters, bannedWords |-> bannedWords,
                         grid |-> EmptyGrid(rows, cols),
                         rng |-> "seeded"]]
    /\ UNCHANGED << mainVars, calls, mpc, launched, joined, wi, attempts, fr,
                    fc, placed, warned, openFailed, pending, file >>

\* a shuffle that may copy an element over another one
ShufflesWithRepeats(s) ==
    { [i \in 1 .. Len(s) |-> s[f[i]]] : f \in [1 .. Len(s) -> 1 .. Len(s)] }

\* the orders std::shuffle can leave a vector in
Shuffles(s) ==
    { [i \in 1 .. Len(s) |-> s[f[i]]] :
        f \in { g \in [1 .. Len(s) -> 1 .. Len(s)] :
                  \A i, j \in 1 .. Len(s) : g[i] = g[j] => i = j } }

\* a generate() that starts by emptying the grid
ShuffleClearsGrid(p) ==
    /\ Running /\ tpc[p] = "generate"
    /\ \E s \in Shuffles(ws[p].words) :
          ws' = [ws EXCEPT ![p].words = s,
                           ![p].rng = IF Len(s) >= 2 THEN "advanced" ELSE @,
                           ![p].grid = EmptyGrid(ws[p].rows, ws[p].cols)]
    /\ calls' = [calls EXCEPT ![p] = calls[p] + 1]
    /\ wi' = [wi EXCEPT ![p] = 1]
    /\ tpc' = [tpc EXCEPT ![p] = "words"]
    /\ UNCHANGED << mainVars, mpc, launched, joined, attempts, fr, fc,
                    placed, warned, openFailed, pending, file >>

\* generate, line 63: std::shuffle(words.begin(), words.end(), rng); it
\* draws from rng when there are two words or more
Shuffle(p) ==
    /\ Running /\ tpc[p] = "generate"
    /\ \E s \in Shuffles(ws[p].words) :
          ws' = [ws EXCEPT ![p].words = s,
                           ![p].rng = IF Len(s) >= 2 THEN "advanced" ELSE @]
    /\ calls' = [calls EXCEPT ![p] = calls[p] + 1]
    /\ wi' = [wi EXCEPT ![p] = 1]
    /\ tpc' = [tpc EXCEPT ![p] = "words"]
    /\ UNCHANGED << mainVars, mpc, launched, joined, attempts, fr, fc,
                    placed, warned, openFailed, pending, file >>

\* generate, lines 64-70: the word is banned and is skipped
SkipBanned(p) ==
    /\ Running /\ tpc[p] = "words"
    /\ wi[p] <= Len(ws[p].words)
    /\ ws[p].words[wi[p]] \in ws[p].bannedWords
    /\ wi' = [wi EXCEPT ![p] = wi[p] + 1]
    /\ UNCHANGED << mainVars, calls, mpc, launched, joined, tpc, ws, attempts,
                    fr, fc, placed, warned, openFailed, pending, file >>

\* generate, lines 65-67: placeWord(word) is called
CallPlaceWord(p) ==
    /\ Running /\ tpc[p] = "words"
    /\ wi[p] <= Len(ws[p].words)
    /\ ws[p].words[wi[p]] \notin ws[p].bannedWords
    /\ attempts' = [attempts EXCEPT ![p] = 0]
    /\ tpc' = [tpc EXCEPT ![p] = "place"]
    /\ UNCHANGED << mainVars, calls, mpc, launched, joined, ws, wi, fr, fc,
                    placed, warned, openFailed, pending, file >>

\* std::uniform_int_distribution<int>(0, n - 1): with n < 1 the behaviour is
\* undefined and any int may come out (-1, 0, 1 stand for them)
Dist(n) == IF n >= 1 THEN 0 .. (n - 1) ELSE (0 - 1) .. 1

\* a placeWord that writes the word and goes on with the next attempt
PlaceHitKeepsTrying(p) ==
    /\ Running /\ tpc[p] = "place"
    /\ attempts[p] < maxAttempts
    /\ \E k \in 1 .. Len(placeDirections),
          row \in Dist(ws[p].rows), col \in Dist(ws[p].cols) :
          LET word == ws[p].words[wi[p]]
              dr == placeDirections[k][1]
              dc == placeDirections[k][2]
          IN /\ canPlaceWord(ws[p], word, row, col, dr, dc)
             /\ ws' = [ws EXCEPT ![p].grid =
                          WriteWord(ws[p].grid, word, row, col, dr, dc),
                                  ![p].rng = "advanced"]
             /\ placed' = [placed EXCEPT ![p] = placed[p] \cup
                   {[word |-> word, row |-> row, col |-> col,
                     dr |-> dr, dc |-> dc]}]
    /\ attempts' = [attempts EXCEPT ![p] = attempts[p] + 1]
    /\ UNCHANGED << mainVars, calls, mpc, launched, joined, tpc, wi, fr, fc,
                    warned, openFailed, pending, file >>

\* placeWord, lines 126-140: an attempt that places the word
PlaceHit(p) ==
    /\ Running /\ tpc[p] = "place"
    /\ attempts[p] < maxAttempts
    /\ \E k \in 1 .. Len(placeDirections),
          row \in Dist(ws[p].rows), col \in Dist(ws[p].cols) :
          LET word == ws[p].words[wi[p]]
              dr == placeDirections[k][1]
              dc == placeDirections[k][2]
          IN /\ canPlaceWord(ws[p], word, row, col, dr, dc)
             /\ ws' = [ws EXCEPT ![p].grid =
                          WriteWord(ws[p].grid, word, row, col, dr, dc),
                                  ![p].rng = "advanced"]
             /\ placed' = [placed EXCEPT ![p] = placed[p] \cup
                   {[word |-> word, row |-> row, col |-> col,
                     dr |-> dr, dc |-> dc]}]
    /\ attempts' = [attempts EXCEPT ![p] = 0]   \* the local ends with the call
    /\ wi' = [wi EXCEPT ![p] = wi[p] + 1]
    /\ tpc' = [tpc EXCEPT ![p] = "words"]
    /\ UNCHANGED << mainVars, calls, mpc, launched, joined, fr, fc, warned,
                    openFailed, pending, file >>

\* a failed attempt that has already written the word's first letter into
\* the start cell when the test fails
PlaceMissWrites(p) ==
    /\ Running /\ tpc[p] = "place"
    /\ attempts[p] < maxAttempts
    /\ \E k \in 1 .. Len(placeDirections),
          row \in Dist(ws[p].rows), col \in Dist(ws[p].cols) :
          /\ ~ canPlaceWord(ws[p], ws[p].words[wi[p]], row, col,
                            placeDirections[k][1], placeDirections[k][2])
          /\ ws' = IF row \in 0 .. (ws[p].rows - 1) /\ col \in 0 .. (ws[p].cols - 1)
                   THEN [ws EXCEPT ![p].grid[row][col] = ws[p].words[wi[p]][1],
                                   ![p].rng = "advanced"]
                   ELSE [ws EXCEPT ![p].rng = "advanced"]
    /\ attempts' = [attempts EXCEPT ![p] = attempts[p] + 1]
    /\ UNCHANGED << mainVars, calls, mpc, launched, joined, tpc, wi, fr, fc,
                    placed, warned, openFailed, pending, file >>

\* placeWord, lines 126-133: an attempt whose draw cannot be placed
PlaceMiss(p) ==
    /\ Running /\ tpc[p] = "place"
    /\ attempts[p] < maxAttempts
    /\ \E k \in 1 .. Len(placeDirections),
          row \in Dist(ws[p].rows), col \in Dist(ws[p].cols) :
          ~ canPlaceWord(ws[p], ws[p].words[wi[p]], row, col,
                         placeDirections[k][1], placeDirections[k][2])
    /\ ws' = [ws EXCEPT ![p].rng = "advanced"]
    /\ attempts' = [attempts EXCEPT ![p] = attempts[p] + 1]
    /\ UNCHANGED << mainVars, calls, mpc, launched, joined, tpc, wi, fr, fc,
                    placed, warned, openFailed, pending, file >>

\* a placeWord that gives up after its first failed attempt
PlaceGiveUpEarly(p) ==
    /\ Running /\ tpc[p] = "place"
    /\ attempts[p] >= 1
    /\ warned' = [warned EXCEPT ![p] = Append(warned[p], ws[p].words[wi[p]])]
    /\ attempts' = [attempts EXCEPT ![p] = 0]
    /\ wi' = [wi EXCEPT ![p] = wi[p] + 1]
    /\ tpc' = [tpc EXCEPT ![p] = "words"]
    /\ UNCHANGED << mainVars, calls, mpc, launched, joined, ws, fr, fc,
                    placed, openFailed, pending, file >>

\* placeWord, line 143: the attempts are used up
PlaceGiveUp(p) ==
    /\ Running /\ tpc[p] = "place"
    /\ attempts[p] >= maxAttempts
    /\ warned' = [warned EXCEPT ![p] = Append(warned[p], ws[p].words[wi[p]])]
    /\ attempts' = [attempts EXCEPT ![p] = 0]   \* the local ends with the call
    /\ wi' = [wi EXCEPT ![p] = wi[p] + 1]
    /\ tpc' = [tpc EXCEPT ![p] = "words"]
    /\ UNCHANGED << mainVars, calls, mpc, launched, joined, ws, fr, fc,
                    placed, openFailed, pending, file >>

\* generate, line 74: the words are done and fillGrid() is called
CallFillGrid(p) ==
    /\ Running /\ tpc[p] = "words"
    /\ wi[p] > Len(ws[p].words)
    /\ fr' = [fr EXCEPT ![p] = 0]
    /\ fc' = [fc EXCEPT ![p] = 0]
    /\ tpc' = [tpc EXCEPT ![p] = "fill"]
    /\ UNCHANGED << mainVars, calls, mpc, launched, joined, ws, wi, attempts,
                    placed, warned, openFailed, pending, file >>

\* fillGrid, line 150: the inner loop ends and the next row starts
FillRowEnd(p) ==
    /\ Running /\ tpc[p] = "fill"
    /\ fr[p] < ws[p].rows /\ fc[p] >= ws[p].cols
    /\ fr' = [fr EXCEPT ![p] = fr[p] + 1]
    /\ fc' = [fc EXCEPT ![p] = 0]
    /\ UNCHANGED << mainVars, calls, mpc, launched, joined, tpc, ws, wi,
                    attempts, placed, warned, openFailed, pending, file >>

\* a fillGrid that empties a cell that is not empty and draws for it
FillSkipRedraws(p) ==
    /\ Running /\ tpc[p] = "fill"
    /\ fr[p] < ws[p].rows /\ fc[p] < ws[p].cols
    /\ ws[p].grid[fr[p]][fc[p]] # Empty
    /\ ws' = [ws EXCEPT ![p].grid[fr[p]][fc[p]] = Empty]
    /\ UNCHANGED << mainVars, calls, mpc, launched, joined, tpc, wi, attempts,
                    fr, fc, placed, warned, openFailed, pending, file >>

\* fillGrid, line 151: the cell is not empty
FillSkip(p) ==
    /\ Running /\ tpc[p] = "fill"
    /\ fr[p] < ws[p].rows /\ fc[p] < ws[p].cols
    /\ ws[p].grid[fr[p]][fc[p]] # Empty
    /\ fc' = [fc EXCEPT ![p] = fc[p] + 1]
    /\ UNCHANGED << mainVars, calls, mpc, launched, joined, tpc, ws, wi,
                    attempts, fr, placed, warned, openFailed, pending, file >>

\* a getRandomLetter whose last index reads past the end of letters
getRandomLetterPastEnd(w, k) ==
    IF k = Len(w.letters) THEN "?" ELSE w.letters[k]

\* WordSearch::getRandomLetter: letters[letterDist(rng)], the k-th letter
getRandomLetter(w, k) == w.letters[k]

\* a draw from one generator shared by all the instances
FillDrawSharedRng(p, k) ==
    /\ Running /\ tpc[p] = "fill"
    /\ fr[p] < ws[p].rows /\ fc[p] < ws[p].cols
    /\ ws[p].grid[fr[p]][fc[p]] = Empty
    /\ k \in 1 .. Len(ws[p].letters)
    /\ ws' = [q \in DOMAIN ws |->
                IF q = p
                THEN [ws[q] EXCEPT !.grid[fr[p]][fc[p]] = ws[p].letters[k],
                                   !.rng = "advanced"]
                ELSE IF ws[q].rng = "none" THEN ws[q]
                ELSE [ws[q] EXCEPT !.rng = "advanced"]]
    /\ tpc' = [tpc EXCEPT ![p] = "check"]
    /\ UNCHANGED << mainVars, calls, mpc, launched, joined, wi, attempts, fr,
                    fc, placed, warned, openFailed, pending, file >>

\* fillGrid, lines 157-158: the k-th letter is drawn and written
FillDrawLetter(p, k) ==
    /\ Running /\ tpc[p] = "fill"
    /\ fr[p] < ws[p].rows /\ fc[p] < ws[p].cols
    /\ ws[p].grid[fr[p]][fc[p]] = Empty
    /\ k \in 1 .. Len(ws[p].letters)
    /\ ws' = [ws EXCEPT ![p].grid[fr[p]][fc[p]] = getRandomLetter(ws[p], k),
                         ![p].rng = "advanced"]
    /\ tpc' = [tpc EXCEPT ![p] = "check"]
    /\ UNCHANGED << mainVars, calls, mpc, launched, joined, wi, attempts, fr,
                    fc, placed, warned, openFailed, pending, file >>

\* the indices a letter draw can return
LetterIndex == UNION { DOMAIN l : l \in LetterChoices }

FillDraw(p) == \E k \in LetterIndex : FillDrawLetter(p, k)

\* a fillGrid that keeps the letter without the scan
FillAcceptUnchecked(p) ==
    /\ Running /\ tpc[p] = "check"
    /\ fc' = [fc EXCEPT ![p] = fc[p] + 1]
    /\ tpc' = [tpc EXCEPT ![p] = "fill"]
    /\ UNCHANGED << mainVars, calls, mpc, launched, joined, ws, wi, attempts,
                    fr, placed, warned, openFailed, pending, file >>

\* fillGrid, lines 160-161: no banned word, the letter is kept
FillAccept(p) ==
    /\ Running /\ tpc[p] = "check"
    /\ ~ containsBannedWords(ws[p])
    /\ fc' = [fc EXCEPT ![p] = fc[p] + 1]
    /\ tpc' = [tpc EXCEPT ![p] = "fill"]
    /\ UNCHANGED << mainVars, calls, mpc, launched, joined, ws, wi, attempts,
                    fr, placed, warned, openFailed, pending, file >>

\* a fillGrid that resets the cell and goes on to the next one
FillRejectMovesOn(p) ==
    /\ Running /\ tpc[p] = "check"
    /\ containsBannedWords(ws[p])
    /\ ws' = [ws EXCEPT ![p].grid[fr[p]][fc[p]] = Empty]
    /\ fc' = [fc EXCEPT ![p] = fc[p] + 1]
    /\ tpc' = [tpc EXCEPT ![p] = "fill"]
    /\ UNCHANGED << mainVars, calls, mpc, launched, joined, wi, attempts, fr,
                    placed, warned, openFailed, pending, file >>

\* a fillGrid that finds a banned word and leaves the letter in the cell
FillRejectKeepsLetter(p) ==
    /\ Running /\ tpc[p] = "check"
    /\ containsBannedWords(ws[p])
    /\ tpc' = [tpc EXCEPT ![p] = "fill"]
    /\ UNCHANGED << mainVars, calls, mpc, launched, joined, ws, wi, attempts,
                    fr, fc, placed, warned, openFailed, pending, file >>

\* fillGrid, lines 162-163: a banned word, the cell is reset
FillReject(p) ==
    /\ Running /\ tpc[p] = "check"
    /\ containsBannedWords(ws[p])
    /\ ws' = [ws EXCEPT ![p].grid[fr[p]][fc[p]] = Empty]
    /\ tpc' = [tpc EXCEPT ![p] = "fill"]
    /\ UNCHANGED << mainVars, calls, mpc, launched, joined, wi, attempts, fr,
                    fc, placed, warned, openFailed, pending, file >>

\* a fillGrid whose outer loop stops one row early
GenerateReturnEarly(p) ==
    /\ Running /\ tpc[p] = "fill"
    /\ fr[p] >= ws[p].rows - 1
    /\ tpc' = [tpc EXCEPT ![p] = "returned"]
    /\ UNCHANGED << mainVars, calls, mpc, launched, joined, ws, wi, attempts,
                    fr, fc, placed, warned, openFailed, pending, file >>

\* fillGrid, line 149: the outer loop ends; generate() returns (line 75)
GenerateReturn(p) ==
    /\ Running /\ tpc[p] = "fill"
    /\ fr[p] >= ws[p].rows
    /\ tpc' = [tpc EXCEPT ![p] = "returned"]
    /\ UNCHANGED << mainVars, calls, mpc, launched, joined, ws, wi, attempts,
                    fr, fc, placed, warned, openFailed, pending, file >>

\* generate() is public (line 61): the owner of the instance calls it again
\* once the call before has returned
GenerateAgain(p) ==
    /\ Running /\ tpc[p] = "returned"
    /\ calls[p] < MaxCalls
    /\ tpc' = [tpc EXCEPT ![p] = "generate"]
    /\ UNCHANGED << mainVars, calls, mpc, launched, joined, ws, wi, attempts,
                    fr, fc, placed, warned, openFailed, pending, file >>

----------------------------------------------------------------------------
(* generatePuzzle: the output file *)

\* generatePuzzle, lines 245-249: the file opens in append mode and the block
\* goes to the stream's buffer
OpenFile(p) ==
    /\ Running /\ tpc[p] = "returned"
    /\ pending' = [pending EXCEPT ![p] = Block(p, ws[p])]
    /\ tpc' = [tpc EXCEPT ![p] = "write"]
    /\ UNCHANGED << mainVars, mpc, launched, joined, engineVars, openFailed,
                    file >>

\* generatePuzzle, lines 250-252: the file does not open
OpenError(p) ==
    /\ Running /\ tpc[p] = "returned"
    /\ openFailed' = openFailed \cup {p}
    /\ tpc' = [tpc EXCEPT ![p] = "finished"]
    /\ UNCHANGED << mainVars, mpc, launched, joined, engineVars, pending,
                    file >>

\* the ofstream writes its buffer to the end of the file each time the
\* buffer is full and, with what is left, when it is closed (line 253); no
\* lock is held between two writes of a task
WriteOut(p) ==
    /\ Running /\ tpc[p] = "write"
    /\ LET n == IF Len(pending[p]) <= BufLines THEN Len(pending[p])
                ELSE BufLines
       IN /\ file' = file \o SubSeq(pending[p], 1, n)
          /\ pending' = [pending EXCEPT ![p] =
                            SubSeq(pending[p], n + 1, Len(pending[p]))]
          /\ tpc' = [tpc EXCEPT ![p] =
                        IF n = Len(pending[p]) THEN "finished" ELSE "write"]
    /\ UNCHANGED << mainVars, mpc, launched, joined, engineVars, openFailed >>

----------------------------------------------------------------------------
(* main and generatePuzzles *)

taskVars == << tpc, ws, calls, wi, attempts, fr, fc, placed, warned,
               openFailed, pending >>

\* main, lines 309-312: no letters, return 1
NoLetters ==
    /\ mpc = "input" /\ Len(letters) = 0
    /\ mpc' = "exit1"
    /\ UNCHANGED << mainVars, launched, joined, taskVars, file >>

\* generatePuzzles, lines 259-260: the output file is cleared
ClearFile ==
    /\ mpc = "input" /\ Len(letters) # 0
    /\ file' = << >>
    /\ launched' = 0
    /\ mpc' = "launch"
    /\ UNCHANGED << mainVars, joined, taskVars >>

\* generatePuzzles, lines 266-269: std::async starts the next task
Launch ==
    /\ mpc = "launch" /\ launched < numPuzzles
    /\ tpc' = [tpc EXCEPT ![launched] = "construct"]
    /\ launched' = launched + 1
    /\ UNCHANGED << mainVars, calls, mpc, joined, ws, wi, attempts, fr, fc,
                    placed, warned, openFailed, pending, file >>

\* generatePuzzles, line 266: every task is started
LaunchDone ==
    /\ mpc = "launch" /\ launched >= numPuzzles
    /\ joined' = 0
    /\ mpc' = "join"
    /\ UNCHANGED << mainVars, launched, taskVars, file >>

\* a join loop that does not wait for the task
JoinWithoutWaiting ==
    /\ mpc = "join" /\ joined < numPuzzles
    /\ joined' = joined + 1
    /\ UNCHANGED << mainVars, mpc, launched, taskVars, file >>

\* generatePuzzles, lines 271-273: future.get() returns
Join ==
    /\ mpc = "join" /\ joined < numPuzzles
    /\ tpc[joined] = "finished"
    /\ joined' = joined + 1
    /\ UNCHANGED << mainVars, mpc, launched, taskVars, file >>

\* generatePuzzles, line 272: future.get() rethrows the task's exception,
\* nothing catches it and the process is terminated
JoinThrows ==
    /\ mpc = "join" /\ joined < numPuzzles
    /\ tpc[joined] = "threw"
    /\ mpc' = "aborted"
    /\ UNCHANGED << mainVars, launched, joined, taskVars, file >>

\* generatePuzzles, lines 275-277, and main, line 333: return 0
Report ==
    /\ mpc = "join" /\ joined >= numPuzzles
    /\ mpc' = "exit0"
    /\ UNCHANGED << mainVars, launched, joined, taskVars, file >>

\* the exit status of the process
ExitStatus ==
    CASE mpc = "exit0" -> 0
      [] mpc = "exit1" -> 1
      [] mpc = "aborted" -> 134
      [] OTHER -> 0 - 1

----------------------------------------------------------------------------

Task(p) ==
    \/ Construct(p)
    \/ Shuffle(p)
    \/ SkipBanned(p)
    \/ CallPlaceWord(p)
    \/ PlaceHit(p)
    \/ PlaceMiss(p)
    \/ PlaceGiveUp(p)
    \/ CallFillGrid(p)
    \/ FillRowEnd(p)
    \/ FillSkip(p)
    \/ FillDraw(p)
    \/ FillAccept(p)
    \/ FillReject(p)
    \/ GenerateReturn(p)
    \/ OpenFile(p)
    \/ OpenError(p)
    \/ WriteOut(p)

Main ==
    \/ NoLetters
    \/ ClearFile
    \/ Launch
    \/ LaunchDone
    \/ Join
    \/ JoinThrows
    \/ Report

Next == Main \/ \E p \in Puzzles : Task(p)

Spec == Init /\ [][Next]_vars

\* the program with an owner that may call generate() again on its instance
\* before it writes the grid; one task
AgainInit == Init /\ numPuzzles <= 1 /\ Len(words) <= 1

NextAgain == Next \/ \E p \in Puzzles : GenerateAgain(p)

AgainSpec == AgainInit /\ [][NextAgain]_vars

\* the inputs of the fair specification: one task, at most one word
FairInit == Init /\ numPuzzles <= 1 /\ Len(words) <= 1

\* the scheduler runs every thread that can run, and the random generator
\* returns every letter again and again while a cell is retried
Fairness ==
    /\ WF_vars(Main)
    /\ \A p \in Puzzles :
          /\ WF_vars(Task(p))
          /\ \A k \in LetterIndex : SF_vars(FillDrawLetter(p, k))

FairSpec == FairInit /\ [][Next]_vars /\ Fairness

----------------------------------------------------------------------------
(* Vocabulary of the properties *)

\* generate() has returned in task p
Returned(p) == tpc[p] \in {"returned", "write", "finished"}

\* the 8 straight directions, and the 6 of them the specification allows a
\* placement to use
AllDirections == { d \in {-1, 0, 1} \X {-1, 0, 1} : d # <<0, 0>> }
SixDirections == AllDirections \ { <<1, -1>>, <<-1, 1>> }

\* the cells of w's grid
Cells(w) == (0 .. (w.rows - 1)) \X (0 .. (w.cols - 1))

\* word reads in w's grid from cell (r, c) in direction d, every cell of the
\* run inside the grid
Reads(w, word, r, c, d) ==
    \A i \in 0 .. (Len(word) - 1) :
        /\ <<r + d[1] * i, c + d[2] * i>> \in Cells(w)
        /\ w.grid[r + d[1] * i][c + d[2] * i] = word[i + 1]

\* word reads somewhere in w's grid along one of the directions dirs
HasRun(w, word, dirs) ==
    \E rc \in Cells(w), d \in dirs : Reads(w, word, rc[1], rc[2], d)

Range(s) == { s[i] : i \in DOMAIN s }

\* the number of times x occurs in the sequence s
Count(s, x) == Cardinality({ i \in DOMAIN s : s[i] = x })

\* s and t hold the same elements, each as many times
SameMultiset(s, t) ==
    /\ Len(s) = Len(t)
    /\ \A x \in Range(s) \cup Range(t) : Count(s, x) = Count(t, x)

\* task p has constructed its instance
HasInstance(p) == ws[p].rng # "none"

----------------------------------------------------------------------------
(* C1 *)

\* C1: whenever generate() has returned, no banned string reads in the grid
\* from any cell in any of the 8 directions.  The code does not keep this:
\* placeWord never looks at the banned words, and fillGrid scans only after
\* it has written a cell.
C1_NoBannedRunOnReturn ==
    \A p \in Puzzles :
        Returned(p) =>
            \A b \in ws[p].bannedWords : ~ HasRun(ws[p], b, AllDirections)

----------------------------------------------------------------------------
(* C2 *)

\* C2: whenever generate() has returned, no cell holds Empty.
C2_NoEmptyCellOnReturn ==
    \A p \in Puzzles :
        Returned(p) =>
            \A rc \in Cells(ws[p]) : ws[p].grid[rc[1]][rc[2]] # Empty

\* C2 witness: generate() has returned on a grid of several cells with one
\* word placed and another given up.
C2_Witness ==
    \E p \in Puzzles :
        /\ Returned(p)
        /\ Cardinality(Cells(ws[p])) >= 2
        /\ placed[p] # {}
        /\ Len(warned[p]) >= 1

----------------------------------------------------------------------------
(* C3 *)

\* C3: every placement that succeeded used one of the 6 placement
\* directions, and in every later state the cells of its line spell the word.
C3_PlacedWordStays ==
    \A p \in Puzzles : \A rec \in placed[p] :
        /\ <<rec.dr, rec.dc>> \in SixDirections
        /\ Reads(ws[p], rec.word, rec.row, rec.col, <<rec.dr, rec.dc>>)

\* C3 witness: generate() has returned with two different words placed on
\* lines that share a cell, and with a cell that no placement covers.
C3_Witness ==
    \E p \in Puzzles :
        /\ Returned(p)
        /\ \E a, b \in placed[p] :
              /\ a.word # b.word
              /\ \E i \in 0 .. (Len(a.word) - 1), j \in 0 .. (Len(b.word) - 1) :
                    /\ a.row + a.dr * i = b.row + b.dr * j
                    /\ a.col + a.dc * i = b.col + b.dc * j
        /\ \E rc \in Cells(ws[p]) :
              \A a \in placed[p] : \A i \in 0 .. (Len(a.word) - 1) :
                  rc # <<a.row + a.dr * i, a.col + a.dc * i>>

----------------------------------------------------------------------------
(* C4 *)

\* C4: a word of the list that is banned is skipped (no placement attempt,
\* no placement, no give-up logged for it) and does not read in the returned
\* grid in any of the 8 directions.  The skip holds; the absence does not,
\* for the reason of C1: another placed word can contain the banned word.
C4_BannedWordSkippedAndAbsent ==
    \A p \in Puzzles :
        /\ \A rec \in placed[p] : rec.word \notin ws[p].bannedWords
        /\ \A w \in Range(warned[p]) : w \notin ws[p].bannedWords
        /\ tpc[p] = "place" => ws[p].words[wi[p]] \notin ws[p].bannedWords
        /\ Returned(p) =>
              \A w \in Range(ws[p].words) \cap ws[p].bannedWords :
                  ~ HasRun(ws[p], w, AllDirections)

----------------------------------------------------------------------------
(* C5 *)

\* task p is in the retry loop of fillGrid on the cell (fr, fc)
InFillLoop(p) ==
    /\ tpc[p] \in {"fill", "check"}
    /\ <<fr[p], fc[p]>> \in Cells(ws[p])
    /\ tpc[p] = "fill" => ws[p].grid[fr[p]][fc[p]] = Empty

\* the instance w with ch in cell (r, c)
WithCell(w, r, c, ch) == [w EXCEPT !.grid[r][c] = ch]

\* a banned word reads in w's grid along a run that covers the cell (r, c)
CompletesAt(w, r, c) ==
    \E b \in w.bannedWords, rc \in Cells(w), d \in AllDirections :
        /\ Reads(w, b, rc[1], rc[2], d)
        /\ \E i \in 0 .. (Len(b) - 1) :
              r = rc[1] + d[1] * i /\ c = rc[2] + d[2] * i

\* the alphabet has a letter that completes no banned word at the cell being
\* filled
SafeLetterAtCell(p) ==
    InFillLoop(p) =>
        \E k \in 1 .. Len(ws[p].letters) :
            ~ CompletesAt(WithCell(ws[p], fr[p], fc[p], ws[p].letters[k]),
                          fr[p], fc[p])

\* C5: under fair draws the fill phase ends whenever every cell it has to
\* fill has a letter that completes no banned word at that cell.  The code
\* does not keep this: the scan covers the whole grid, so a banned word that
\* the placed words already spell (C1) makes it reject every letter.
C5_FillTerminates ==
    ([] (\A p \in Puzzles : SafeLetterAtCell(p)))
        => (\A p \in Puzzles : (tpc[p] = "fill") ~> Returned(p))

----------------------------------------------------------------------------
(* C6 *)

\* every letter of the alphabet makes the scan report a match at the cell
\* being filled
AllRejected(p) ==
    /\ InFillLoop(p)
    /\ \A k \in 1 .. Len(ws[p].letters) :
          containsBannedWords(
              WithCell(ws[p], fr[p], fc[p], ws[p].letters[k]))

\* C6: once the fill phase is on a cell where every letter is rejected,
\* generate() never returns and reports nothing: the task stays on that cell,
\* which holds Empty or a tentative letter in turn, every other cell keeps
\* its value, no warning or error is logged for the task, and under fair
\* scheduling the draw and the reset both recur forever.
C6_StuckCellLoopsForever ==
    /\ [][ \A p \in Puzzles :
             AllRejected(p) =>
                /\ AllRejected(p)'
                /\ fr'[p] = fr[p] /\ fc'[p] = fc[p]
                /\ ~ Returned(p)'
                /\ tpc'[p] # "threw"
                /\ warned'[p] = warned[p]
                /\ p \notin openFailed'
                /\ mpc' \notin {"exit0", "exit1", "aborted"}
                /\ \A rc \in Cells(ws[p]) :
                      rc # <<fr[p], fc[p]>> =>
                          ws'[p].grid[rc[1]][rc[2]] = ws[p].grid[rc[1]][rc[2]]
                /\ tpc'[p] = "fill" => ws'[p].grid[fr[p]][fc[p]] = Empty
                /\ tpc'[p] = "check" =>
                      ws'[p].grid[fr[p]][fc[p]] \in Range(ws[p].letters)
         ]_vars
    /\ \A p \in Puzzles :
          [] (AllRejected(p) =>
                 ([]<>(tpc[p] = "check") /\ []<>(tpc[p] = "fill")))

\* C6 witness: a task has just reset a cell where every letter is rejected,
\* after it filled an earlier cell and with a later cell still Empty.
C6_Witness ==
    \E p \in Puzzles :
        /\ AllRejected(p) /\ tpc[p] = "fill"
        /\ \E rc \in Cells(ws[p]) :
              /\ rc[1] > fr[p] \/ (rc[1] = fr[p] /\ rc[2] > fc[p])
              /\ ws[p].grid[rc[1]][rc[2]] = Empty
        /\ <<fr[p], fc[p]>> # <<0, 0>>
        /\ Len(ws[p].letters) >= 2

----------------------------------------------------------------------------
(* C7 *)

\* the lines of the file that carry puzzle number n
LinesOf(n) == SelectSeq(file, LAMBDA l : l.puzzle = n)

\* C7: the lines of a block are never split by a line of another block, every
\* row line has cols characters, and when the batch is done and every open
\* succeeded the file holds exactly the whole block of each puzzle 1..N.
\* The code does not keep this: each task appends through its own stream and
\* nothing serializes the writes of two streams.
C7_WholeBlocksInFile ==
    (rows >= 1 /\ cols >= 1) =>
        /\ \A i, j, k \in DOMAIN file :
              (i < j /\ j < k /\ file[i].puzzle = file[k].puzzle)
                  => file[j].puzzle = file[i].puzzle
        /\ \A i \in DOMAIN file :
              file[i].kind = "row" => Len(file[i].text) = cols
        /\ (mpc = "exit0" /\ openFailed = {}) =>
              /\ Len(file) = numPuzzles * (rows + 2)
              /\ \A p \in Puzzles :
                    p < numPuzzles => LinesOf(p + 1) = Block(p, ws[p])

----------------------------------------------------------------------------
(* C8 *)

\* the lines of the file written by this run
NoBlockInFile == \A i \in DOMAIN file : file[i].kind = "stale"

\* C8: with rows < 1 or cols < 1 the input is rejected: no task ever runs
\* generate() and no block reaches the file.  The code does not keep this:
\* no line of main or of the constructor tests the dimensions.
C8_BadDimensionsRejected ==
    (rows < 1 \/ cols < 1) =>
        /\ \A p \in Puzzles : tpc[p] \in {"idle", "construct", "threw"}
        /\ NoBlockInFile

----------------------------------------------------------------------------
(* C9 *)

\* C9: with no letters the program ends with a non-zero status before any
\* task starts and no block is written; with letters, once the program has
\* ended its status is zero.  The first half holds; the second does not for
\* a negative dimension, which C8's missing test lets through to the
\* constructor, whose exception ends the process.
C9_ExitStatus ==
    /\ (Len(letters) = 0 /\ mpc # "input") =>
          /\ mpc = "exit1" /\ ExitStatus # 0
          /\ \A p \in Puzzles : tpc[p] = "idle"
          /\ NoBlockInFile
    /\ (Len(letters) # 0 /\ ~ Running) => ExitStatus = 0

----------------------------------------------------------------------------
(* C10 *)

\* C10 as stated: a word given up after its 100 attempts does not read in the
\* returned grid along any of the 6 placement directions.
C10_UnplacedWordAbsent ==
    \A p \in Puzzles :
        Returned(p) =>
            \A w \in Range(warned[p]) : ~ HasRun(ws[p], w, SixDirections)

\* C10 as amended: a word given up after its 100 attempts was never written:
\* every step of placeWord that is not a successful placement leaves every
\* cell unchanged, and the give-up is logged only once 100 attempts failed
\* (the word can still read in the returned grid through letters of the fill
\* phase or of other words).
C10_UnplacedWordNotWritten ==
    [][ \A p \in Puzzles :
          (tpc[p] = "place" /\ placed'[p] = placed[p]) =>
              /\ ws'[p].grid = ws[p].grid
              /\ warned'[p] # warned[p] =>
                    /\ attempts[p] = maxAttempts
                    /\ warned'[p] = Append(warned[p], ws[p].words[wi[p]])
      ]_vars

\* C10 witness: generate() has returned, a word was given up, and it reads in
\* the grid all the same.
C10_Witness ==
    \E p \in Puzzles :
        /\ Returned(p)
        /\ \E w \in Range(warned[p]) : HasRun(ws[p], w, SixDirections)

----------------------------------------------------------------------------
(* C11 *)

\* C11: no step changes the caller's letters, words (elements and order) or
\* banned words; no step writes an instance's letters or banned words, which
\* stay the caller's; and an instance's words stay a reordering of the
\* caller's words (same words, each as many times).
C11_InputsUnchanged ==
    /\ [] (\A p \in Puzzles :
              HasInstance(p) =>
                 /\ ws[p].letters = letters
                 /\ ws[p].bannedWords = bannedWords
                 /\ \/ ws[p].words = words
                    \/ SameMultiset(ws[p].words, words))
    /\ [][ /\ letters' = letters
           /\ words' = words
           /\ bannedWords' = bannedWords
           /\ \A p \in Puzzles :
                 HasInstance(p) =>
                    /\ ws'[p].letters = ws[p].letters
                    /\ ws'[p].bannedWords = ws[p].bannedWords
                    /\ \/ ws'[p].words = ws[p].words
                       \/ SameMultiset(ws'[p].words, ws[p].words)
         ]_vars

\* C11 witness: generate() has returned after the shuffle put two different
\* words in another order than the caller's and after a word was written.
C11_Witness ==
    \E p \in Puzzles :
        /\ Returned(p)
        /\ Len(words) = 2
        /\ ws[p].words # words
        /\ placed[p] # {}

----------------------------------------------------------------------------
(* C12 *)

\* how far a task has come
Stage(pc) ==
    CASE pc = "idle" -> 0
      [] pc = "construct" -> 1
      [] pc = "generate" -> 2
      [] pc \in {"words", "place"} -> 3
      [] pc \in {"fill", "check"} -> 4
      [] pc = "returned" -> 5
      [] pc = "write" -> 6
      [] pc \in {"finished", "threw"} -> 7

\* the step is one of the main thread: it moves main or one of the two loops
\* of generatePuzzles
MainStep == << mpc, launched, joined >>' # << mpc, launched, joined >>

\* C12: completion is reported only when each of the numPuzzles tasks has
\* finished generate() and its write (its whole block is in the file, or its
\* open failed and was logged), and every future the join loop has passed is
\* one of a finished task; so while a task is stuck in its fill loop
\* completion is not reported.  No task is restarted or cancelled: a task
\* never moves back to an earlier stage, and a step of the main thread
\* changes no task but the one it launches.
C12_ReportAfterAllTasks ==
    /\ [] (\A p \in Puzzles :
              /\ (mpc = "join" /\ p < joined) => tpc[p] = "finished"
              /\ (mpc = "exit0" /\ p < numPuzzles) =>
                    /\ tpc[p] = "finished"
                    /\ ~ AllRejected(p)
                    /\ pending[p] = << >>
                    /\ p \in openFailed \/ LinesOf(p + 1) = Block(p, ws[p]))
    /\ [][ /\ tpc' # tpc =>
                 \A p \in Puzzles :
                    /\ Stage(tpc'[p]) >= Stage(tpc[p])
                    /\ tpc[p] \in {"finished", "threw"} => tpc'[p] = tpc[p]
           /\ MainStep =>
                 /\ ws' = ws /\ pending' = pending
                 /\ \A p \in Puzzles :
                       \/ tpc'[p] = tpc[p]
                       \/ /\ mpc = "launch" /\ p = launched
                          /\ tpc[p] = "idle" /\ tpc'[p] = "construct"
         ]_vars

\* C12 witness: completion is reported for a batch of two puzzles, one whose
\* block is in the file and one whose open failed.
C12_Witness ==
    /\ mpc = "exit0"
    /\ numPuzzles = 2
    /\ rows >= 1 /\ cols >= 1
    /\ openFailed = {0}
    /\ LinesOf(2) = Block(1, ws[1])

----------------------------------------------------------------------------
(* C13 *)

\* what task p owns: its position, its instance (grid, word order, random
\* generator) and the locals of its calls
Own(p) ==
    << tpc[p], ws[p], wi[p], attempts[p], fr[p], fc[p], pending[p] >>

----------------------------------------------------------------------------
(* C14 *)

\* the cell rc comes before the cell (r, c) in row-major order
Before(rc, r, c) == rc[1] < r \/ (rc[1] = r /\ rc[2] < c)

\* C14: an instance with no words makes no placement attempt (placeWord is
\* never entered, nothing is placed, nothing is given up), its grid is all
\* Empty when the fill phase starts, the fill phase assigns the cells one by
\* one with letters of the alphabet, and the returned grid has no Empty cell
\* and no banned string in any of the 8 directions.
C14_EmptyWordListFillsAll ==
    \A p \in Puzzles :
        (HasInstance(p) /\ Len(ws[p].words) = 0) =>
            /\ tpc[p] # "place" /\ attempts[p] = 0
            /\ placed[p] = {} /\ warned[p] = << >>
            /\ tpc[p] \in {"generate", "words"} =>
                  ws[p].grid = EmptyGrid(ws[p].rows, ws[p].cols)
            /\ tpc[p] \in {"fill", "check"} =>
                  \A rc \in Cells(ws[p]) :
                      IF Before(rc, fr[p], fc[p])
                      THEN ws[p].grid[rc[1]][rc[2]] \in Range(ws[p].letters)
                      ELSE rc # << fr[p], fc[p] >> =>
                              ws[p].grid[rc[1]][rc[2]] = Empty
            /\ Returned(p) =>
                  /\ \A rc \in Cells(ws[p]) :
                        ws[p].grid[rc[1]][rc[2]] \in Range(ws[p].letters)
                  /\ \A b \in ws[p].bannedWords :
                        ~ HasRun(ws[p], b, AllDirections)

\* C14 witness: generate() has returned on a 2x2 grid with no words, a banned
\* word that the alphabet can spell, and both letters in the grid.
C14_Witness ==
    \E p \in Puzzles :
        /\ Returned(p)
        /\ Len(words) = 0
        /\ ws[p].rows = 2 /\ ws[p].cols = 2
        /\ << "A", "A" >> \in ws[p].bannedWords
        /\ \E rc \in Cells(ws[p]) : ws[p].grid[rc[1]][rc[2]] = "A"
        /\ \E rc \in Cells(ws[p]) : ws[p].grid[rc[1]][rc[2]] = "B"

----------------------------------------------------------------------------
(* C15 *)

\* word is longer than the rows and than the columns of w
TooLong(w, word) == Len(word) > w.rows /\ Len(word) > w.cols

\* placeWord is running in task p for a word longer than both dimensions
PlacingTooLong(p) ==
    tpc[p] = "place" /\ TooLong(ws[p], ws[p].words[wi[p]])

----------------------------------------------------------------------------
(* C16 *)

\* (r, c) is a cell of w's grid
InGrid(w, r, c) == r \in 0 .. (w.rows - 1) /\ c \in 0 .. (w.cols - 1)

\* the whole span of word from (row, col) in direction d lies in w's grid and
\* each of its cells is Empty or holds the word's character for that cell
Fits(w, word, row, col, d) ==
    \A i \in 0 .. (Len(word) - 1) :
        /\ InGrid(w, row + d[1] * i, col + d[2] * i)
        /\ w.grid[row + d[1] * i][col + d[2] * i] \in {Empty, word[i + 1]}

\* g2 is g1 with word written from (row, col) in direction d and no other
\* cell changed
WrittenOnLine(w, g2, word, row, col, d) ==
    \A rc \in Cells(w) :
        IF \E i \in 0 .. (Len(word) - 1) :
               rc = << row + d[1] * i, col + d[2] * i >>
        THEN \A i \in 0 .. (Len(word) - 1) :
               rc = << row + d[1] * i, col + d[2] * i >>
                  => g2[rc[1]][rc[2]] = word[i + 1]
        ELSE g2[rc[1]][rc[2]] = w.grid[rc[1]][rc[2]]

\* C16: when placeWord is entered, the test of an attempt passes for exactly
\* the draws (direction, start cell) whose whole span is in the grid with
\* every cell Empty or equal to the word's character; an attempt that ends
\* the call without a give-up has written the whole word on the line of a
\* draw that passes and has changed no cell off that line; every other step
\* of placeWord (a failed attempt, the give-up) leaves every cell unchanged,
\* so the same draws pass at each of the attempts of the call.
C16_AttemptWritesIffFits ==
    /\ [] (\A p \in Puzzles :
              (tpc[p] = "place" /\ attempts[p] = 0) =>
                 \A k \in 1 .. Len(placeDirections),
                    row \in Dist(ws[p].rows), col \in Dist(ws[p].cols) :
                    canPlaceWord(ws[p], ws[p].words[wi[p]], row, col,
                                 placeDirections[k][1], placeDirections[k][2])
                    <=> Fits(ws[p], ws[p].words[wi[p]], row, col,
                             placeDirections[k]))
    /\ [][ \A p \in Puzzles :
             (tpc[p] = "place" /\ Own(p)' # Own(p)) =>
                IF tpc'[p] = "words" /\ warned'[p] = warned[p]
                THEN \E rec \in placed'[p] :
                        /\ rec.word = ws[p].words[wi[p]]
                        /\ Fits(ws[p], rec.word, rec.row, rec.col,
                                << rec.dr, rec.dc >>)
                        /\ WrittenOnLine(ws[p], ws'[p].grid, rec.word,
                                         rec.row, rec.col, << rec.dr, rec.dc >>)
                ELSE ws'[p].grid = ws[p].grid
         ]_vars

\* C16 witness: placeWord is running after a failed attempt, on a grid that
\* holds a placed word, with one draw whose span is in the grid and is
\* refused for a different letter, and one draw that passes over a cell that
\* already holds the word's letter.
C16_Witness ==
    \E p \in Puzzles :
        /\ tpc[p] = "place" /\ attempts[p] >= 1
        /\ placed[p] # {}
        /\ \E k \in 1 .. Len(placeDirections), rc \in Cells(ws[p]) :
              /\ \A i \in 0 .. (Len(ws[p].words[wi[p]]) - 1) :
                    InGrid(ws[p], rc[1] + placeDirections[k][1] * i,
                                  rc[2] + placeDirections[k][2] * i)
              /\ ~ canPlaceWord(ws[p], ws[p].words[wi[p]], rc[1], rc[2],
                                placeDirections[k][1], placeDirections[k][2])
        /\ \E k \in 1 .. Len(placeDirections), rc \in Cells(ws[p]) :
              /\ canPlaceWord(ws[p], ws[p].words[wi[p]], rc[1], rc[2],
                              placeDirections[k][1], placeDirections[k][2])
              /\ ws[p].grid[rc[1]][rc[2]] # Empty

----------------------------------------------------------------------------
(* C17 *)

\* task p is in the placement phase of generate()
InPhaseA(p) == tpc[p] \in {"words", "place"}

\* a count that every step of the placement phase raises: the words done,
\* then the attempts of the word in hand
Progress(p) ==
    (maxAttempts + 2) * wi[p]
        + (IF tpc[p] = "place" THEN 1 + attempts[p] ELSE 0)

\* C17: placeWord makes at most 100 attempts for a word: a failed attempt
\* raises the count, which never passes 100, the give-up comes at 100, and an
\* attempt that writes the word ends the call and moves to the next word, so
\* the grid is written at most once for each word of the list; the attempts
\* of a generate() are at most 100 for each word before the one in hand plus
\* those of the word in hand, 100 x |words| in all; and the phase ends,
\* because each of its steps raises a count that is bounded.
C17_AttemptsBounded ==
    /\ [] (\A p \in Puzzles :
              /\ attempts[p] \in 0 .. maxAttempts
              /\ InPhaseA(p) =>
                    /\ wi[p] \in 1 .. (Len(ws[p].words) + 1)
                    /\ tpc[p] = "place" => wi[p] <= Len(ws[p].words)
                    /\ maxAttempts * (wi[p] - 1) + attempts[p]
                          <= maxAttempts * Len(ws[p].words)
                    /\ Progress(p)
                          <= (maxAttempts + 2) * (Len(ws[p].words) + 1))
    /\ [][ \A p \in Puzzles :
             (InPhaseA(p) /\ Own(p)' # Own(p)) =>
                /\ \/ InPhaseA(p)' /\ Progress(p)' > Progress(p)
                   \/ tpc'[p] = "fill" /\ wi[p] = Len(ws[p].words) + 1
                /\ wi'[p] \in {wi[p], wi[p] + 1}
                /\ (tpc[p] = "place" /\ wi'[p] = wi[p]) =>
                      /\ attempts[p] < maxAttempts
                      /\ attempts'[p] = attempts[p] + 1
                      /\ ws'[p].grid = ws[p].grid /\ placed'[p] = placed[p]
                /\ (ws'[p].grid # ws[p].grid \/ placed'[p] # placed[p]) =>
                      /\ tpc[p] = "place" /\ tpc'[p] = "words"
                      /\ attempts[p] < maxAttempts
                      /\ wi'[p] = wi[p] + 1
         ]_vars

\* C17 witness: the first word of two was placed and the second has just
\* failed its 100th attempt.
C17_Witness ==
    \E p \in Puzzles :
        /\ tpc[p] = "place"
        /\ wi[p] = 2
        /\ attempts[p] = maxAttempts
        /\ placed[p] # {}

----------------------------------------------------------------------------
(* C18 *)

\* the cell (r, c) is on the line of the placement rec
Covers(rec, r, c) ==
    \E i \in 0 .. (Len(rec.word) - 1) :
        r = rec.row + rec.dr * i /\ c = rec.col + rec.dc * i

\* the cell (r, c) of task p holds a letter the fill phase has drawn and not
\* yet accepted
Tentative(p, r, c) == tpc[p] = "check" /\ r = fr[p] /\ c = fc[p]

\* C18: a cell that holds a character, other than the letter the fill phase
\* is trying, keeps that character in every step; the cell the fill phase is
\* trying is a cell of the grid that no placement covers; and the fill phase
\* never comes back to a cell: its position only moves forward in row-major
\* order, and each acceptance moves it past the accepted cell.
C18_CellsWriteOnce ==
    /\ [] (\A p \in Puzzles :
              tpc[p] = "check" =>
                 /\ InGrid(ws[p], fr[p], fc[p])
                 /\ ws[p].grid[fr[p]][fc[p]] # Empty
                 /\ \A rec \in placed[p] : ~ Covers(rec, fr[p], fc[p]))
    /\ [][ \A p \in Puzzles :
             /\ ws'[p].grid # ws[p].grid =>
                   \A r \in 0 .. (ws[p].rows - 1), c \in 0 .. (ws[p].cols - 1) :
                      (ws[p].grid[r][c] # Empty /\ ~ Tentative(p, r, c))
                          => ws'[p].grid[r][c] = ws[p].grid[r][c]
             /\ (tpc[p] \in {"fill", "check"} /\ Own(p)' # Own(p)) =>
                   /\ ~ Before(<< fr'[p], fc'[p] >>, fr[p], fc[p])
                   /\ (tpc[p] = "check" /\ ws'[p].grid = ws[p].grid) =>
                         Before(<< fr[p], fc[p] >>, fr'[p], fc'[p])
         ]_vars

\* C18 witness: the fill phase is trying a letter in a grid that holds a
\* placed word and, before the cell it is trying, a cell that no placement
\* covers and that it filled.
C18_Witness ==
    \E p \in Puzzles :
        /\ tpc[p] = "check"
        /\ placed[p] # {}
        /\ \E rc \in Cells(ws[p]) :
              /\ Before(rc, fr[p], fc[p])
              /\ \A rec \in placed[p] : ~ Covers(rec, rc[1], rc[2])

----------------------------------------------------------------------------
(* C19 *)

\* a banned word reads somewhere in w's grid in one of the 8 directions
BannedRun(w) == \E b \in w.bannedWords : HasRun(w, b, AllDirections)

\* C19: the fill phase draws for the first Empty cell in row-major order (the
\* cells before its position are never Empty) and the draw writes a letter
\* of the alphabet in that cell only; the letter is kept only if no banned
\* word reads anywhere in the grid, and then no cell changes and the grid
\* that is left has no banned run; otherwise the cell goes back to Empty, no
\* other cell changes and the position stays, which leaves the grid as it
\* was before the draw.
C19_FillAcceptsOrReverts ==
    /\ [] (\A p \in Puzzles :
              tpc[p] \in {"fill", "check"} =>
                 \A rc \in Cells(ws[p]) :
                    Before(rc, fr[p], fc[p]) => ws[p].grid[rc[1]][rc[2]] # Empty)
    /\ [][ \A p \in Puzzles :
             /\ (tpc[p] = "fill" /\ tpc'[p] = "check") =>
                   /\ InGrid(ws[p], fr[p], fc[p])
                   /\ ws[p].grid[fr[p]][fc[p]] = Empty
                   /\ \E ch \in Range(ws[p].letters) :
                         ws'[p].grid = WithCell(ws[p], fr[p], fc[p], ch).grid
                   /\ WithCell(ws'[p], fr[p], fc[p], Empty).grid = ws[p].grid
                   /\ fr'[p] = fr[p] /\ fc'[p] = fc[p]
             /\ (tpc[p] = "check" /\ tpc'[p] # "check") =>
                   /\ tpc'[p] = "fill"
                   /\ IF BannedRun(ws[p])
                      THEN /\ ws'[p].grid
                                = WithCell(ws[p], fr[p], fc[p], Empty).grid
                           /\ fr'[p] = fr[p] /\ fc'[p] = fc[p]
                      ELSE /\ ws'[p].grid = ws[p].grid
                           /\ ~ BannedRun(ws'[p])
                           /\ fr'[p] = fr[p] /\ fc'[p] = fc[p] + 1
         ]_vars

\* C19 witness: after an earlier cell was filled, the fill phase has drawn a
\* letter that makes a banned word read in the grid, while another letter
\* of the alphabet would be kept.
C19_Witness ==
    \E p \in Puzzles :
        /\ tpc[p] = "check"
        /\ << fr[p], fc[p] >> # << 0, 0 >>
        /\ BannedRun(ws[p])
        /\ \E ch \in Range(ws[p].letters) :
              ~ BannedRun(WithCell(ws[p], fr[p], fc[p], ch))

----------------------------------------------------------------------------
(* C20 *)

\* C20: for every instance and every grid it goes through, the scan reports
\* a match exactly when some banned word reads from some cell in one of the
\* 8 directions with all its cells in the grid; no banned word holds the
\* Empty character, so a run never goes over an Empty cell and the scan of
\* the grid of the constructor reports nothing; and the step that scans
\* changes no cell but the one fillGrid resets after a match.  (Failed
\* placement attempts leave the grid as it is, so each grid is compared
\* when the attempt count is 0.)
C20_ScanFindsEveryRun ==
    /\ [] (\A p \in Puzzles :
              (HasInstance(p) /\ attempts[p] = 0) =>
                 /\ containsBannedWords(ws[p]) <=> BannedRun(ws[p])
                 /\ \A b \in ws[p].bannedWords : Empty \notin Range(b)
                 /\ tpc[p] = "generate" => ~ containsBannedWords(ws[p]))
    /\ [][ \A p \in Puzzles :
             (tpc[p] = "check" /\ tpc'[p] # "check") =>
                ws'[p].grid = IF containsBannedWords(ws[p])
                              THEN WithCell(ws[p], fr[p], fc[p], Empty).grid
                              ELSE ws[p].grid
         ]_vars

\* C20 witness: the scan runs on a grid that still has an Empty cell and in
\* which a banned word reads along an anti-diagonal and along no other line.
C20_Witness ==
    \E p \in Puzzles :
        /\ tpc[p] = "check"
        /\ containsBannedWords(ws[p])
        /\ \E rc \in Cells(ws[p]) : ws[p].grid[rc[1]][rc[2]] = Empty
        /\ \A b \in ws[p].bannedWords : ~ HasRun(ws[p], b, SixDirections)

----------------------------------------------------------------------------
(* C21 *)

\* the characters of the words of w
WordChars(w) == UNION { Range(w.words[i]) : i \in DOMAIN w.words }

\* C21: in the grid generate() has returned, each cell holds a letter of the
\* alphabet or the character that a placed word has at that cell; and when
\* every character of every word is in the alphabet, every cell holds a
\* letter of the alphabet.
C21_CellsFromAlphabetOrWords ==
    \A p \in Puzzles :
        Returned(p) =>
            /\ \A rc \in Cells(ws[p]) :
                  \/ ws[p].grid[rc[1]][rc[2]] \in Range(ws[p].letters)
                  \/ \E rec \in placed[p] :
                        \E i \in 0 .. (Len(rec.word) - 1) :
                           /\ rc = << rec.row + rec.dr * i,
                                      rec.col + rec.dc * i >>
                           /\ ws[p].grid[rc[1]][rc[2]] = rec.word[i + 1]
            /\ WordChars(ws[p]) \subseteq Range(ws[p].letters) =>
                  \A rc \in Cells(ws[p]) :
                      ws[p].grid[rc[1]][rc[2]] \in Range(ws[p].letters)

\* C21 witness: generate() has returned a grid with a cell that holds a
\* character of a placed word that is not in the alphabet, and a cell that
\* no placement covers.
C21_Witness ==
    \E p \in Puzzles :
        /\ Returned(p)
        /\ \E rc \in Cells(ws[p]) :
              ws[p].grid[rc[1]][rc[2]] \notin Range(ws[p].letters)
        /\ \E rc \in Cells(ws[p]) :
              \A rec \in placed[p] : ~ Covers(rec, rc[1], rc[2])

----------------------------------------------------------------------------
(* C22 *)

\* generate() has returned once on p's instance and every later step of the
\* instance belongs to a later call
AfterFirstReturn(p) ==
    \/ calls[p] >= 2
    \/ calls[p] = 1 /\ tpc[p] \in {"returned", "generate"}

\* C22: once generate() has returned, a later call of generate() leaves
\* every cell unchanged: the grid has no Empty cell, a placement of the later
\* call succeeds only on a line where the word already reads, and the fill
\* phase never draws a letter.
C22_GenerateAgainKeepsGrid ==
    /\ [] (\A p \in Puzzles :
              AfterFirstReturn(p) =>
                 /\ tpc[p] # "check"
                 /\ \A rc \in Cells(ws[p]) : ws[p].grid[rc[1]][rc[2]] # Empty)
    /\ [][ \A p \in Puzzles :
             AfterFirstReturn(p) =>
                /\ ws'[p].grid = ws[p].grid
                /\ \A rec \in placed'[p] \ placed[p] :
                      Reads(ws[p], rec.word, rec.row, rec.col,
                            << rec.dr, rec.dc >>)
         ]_vars

\* C22 witness: the second call of generate() has returned after it placed
\* the one word of the list on a line other than the line of the first call.
C22_Witness ==
    \E p \in Puzzles :
        /\ calls[p] = 2
        /\ tpc[p] = "returned"
        /\ Len(ws[p].words) = 1
        /\ Cardinality(placed[p]) = 2

====
